---- MODULE Spec2Model ----
(***************************************************************************)
(* Friction-factor resolution of HW5SP25a.py (ff, plotMoody) and           *)
(* HW5SP25b.py (calculate_friction_factor).                                *)
(*                                                                         *)
(* Numbers.  Python floats are modelled in fixed point:                    *)
(*   friction factors in units of 1/FScale (1e-6),                         *)
(*   relative roughness in units of 1/RrScale (1e-6),                      *)
(*   Reynolds numbers as integers,                                         *)
(*   standard normal variates in units of 1/ZScale (0.1),                  *)
(*   logarithms and Colebrook residuals in units of 1/LScale (1e-4).       *)
(* Every division rounds down, so a quotient is a rounded value and never  *)
(* the exact rational.                                                     *)
(***************************************************************************)
EXTENDS Integers, Sequences, FiniteSets, TLC

VARIABLES rng, epoch, last, ref

vars == <<rng, epoch, last, ref>>

FScale == 1000000
RrScale == 1000000
ZScale == 10
LScale == 10000

(***************************************************************************)
(* Integer helpers for the fixed-point arithmetic.                         *)
(***************************************************************************)
Abs(n) == IF n < 0 THEN 0 - n ELSE n

Pow2(k) == 2 ^ k

\* a * b / c without forming a * b first (a, b >= 0, c > 0).
MulDiv(a, b, c) == (a \div c) * b + ((a % c) * b) \div c

RECURSIVE ISqrtIter(_, _, _)
ISqrtIter(n, lo, hi) ==
    IF hi - lo <= 1 THEN lo
    ELSE LET mid == (lo + hi) \div 2
         IN IF mid * mid <= n THEN ISqrtIter(n, mid, hi)
            ELSE ISqrtIter(n, lo, mid)

\* floor(sqrt(n)) for 0 <= n < 2^31
ISqrt(n) == ISqrtIter(n, 0, 46341)

RECURSIVE FloorLog2(_)
FloorLog2(n) == IF n < 2 THEN 0 ELSE 1 + FloorLog2(n \div 2)

\* Fraction bits of log2 of a mantissa m in [2^14, 2^15), by repeated squaring.
RECURSIVE Log2Frac(_, _, _)
Log2Frac(m, bits, acc) ==
    IF bits = 0 THEN acc
    ELSE LET sq == (m * m) \div 16384
         IN IF sq >= 32768 THEN Log2Frac(sq \div 2, bits - 1, 2 * acc + 1)
            ELSE Log2Frac(sq, bits - 1, 2 * acc)

\* np.log10 of an integer n >= 1, in units of 1/LScale.
Log10(n) ==
    LET k == FloorLog2(n)
        m == IF k >= 14 THEN n \div Pow2(k - 14) ELSE n * Pow2(14 - k)
        frac == Log2Frac(m, 13, 0)
    IN (k * 30103) \div 10 + (frac * 30103) \div 81920

RECURSIVE Pow10Iter(_, _, _)
Pow10Iter(y, lo, hi) ==
    IF hi - lo <= 1 THEN hi
    ELSE LET mid == lo + (hi - lo) \div 2
         IN IF Log10(mid) >= y THEN Pow10Iter(y, lo, mid)
            ELSE Pow10Iter(y, mid, hi)

\* 10 ** y for y in units of 1/LScale: the least integer whose Log10 reaches y.
Pow10(y) == IF Log10(1) >= y THEN 1 ELSE Pow10Iter(y, 1, 2000000000)

(***************************************************************************)
(* Inputs.  Reynolds numbers and roughnesses handed to the resolver:       *)
(* negative, zero, laminar, both boundaries, transition, turbulent; and    *)
(* roughness below, inside, at the end of and above [0, 0.05].             *)
(***************************************************************************)
ReInputs == {-100, 0, 1000, 2000, 2001, 3000, 4000, 100000}
RrInputs == {-100000, 0, 50000, 100000}

ValidRe(Re) == Re > 0
ValidRr(rr) == 0 <= rr /\ 20 * rr <= RrScale
ValidInput(Re, rr) == ValidRe(Re) /\ ValidRr(rr)

\* Number of points at which the interpolation is sampled over [2000, 4000].
NInterp == 40
InterpRe == {2000 + (2000 * i) \div NInterp : i \in 0..NInterp}

(***************************************************************************)
(* HW5SP25a.py: the sample grids of plotMoody.                             *)
(***************************************************************************)
\* np.logspace(np.log10(lo), np.log10(hi), num)
logspace(lo, hi, num) ==
    [i \in 1..num |->
        Pow10(Log10(lo) + ((i - 1) * (Log10(hi) - Log10(lo))) \div (num - 1))]

NumCB == 100
NumL == 20
NumTrans == 20

ReValsCB == logspace(4000, 100000000, NumCB)
ReValsL == logspace(600, 2000, NumL)
ReValsTrans == logspace(2000, 4000, NumTrans)

rrVals == <<0, 1, 5, 10, 50, 100, 200, 400, 600, 800,
            1000, 2000, 4000, 6000, 8000, 15000, 20000, 30000, 40000, 50000>>

Range(seq) == {seq[i] : i \in 1..Len(seq)}

(***************************************************************************)
(* HW5SP25a.py: ff.                                                        *)
(***************************************************************************)
\* log10(3.7) in units of 1/LScale (the constant 3.7 of the Colebrook lambda)
Log37 == 5682

\* 1 / np.sqrt(f) in units of 1e-3, for f > 0 in units of 1/FScale
InvSqrt(f) == ISqrt((1000000000 \div f) * 1000)

\* 100 * (rr * Re + 3.7 * 2.51 / sqrt(f)): the argument of the logarithm times
\* 3.7 * Re, in units of 1e-2.  Its sign against the sign of Re decides
\* whether np.log10 is given a positive number.
LogArgNum(Re, rr, f) == MulDiv(Re, rr, 10000) + (9287 * InvSqrt(f)) \div 10000

\* Whether the lambda cb yields a finite float at f: Re = 0 divides by zero
\* (numpy gives inf), f <= 0 or a non-positive logarithm argument gives nan.
CbFinite(Re, rr, f) ==
    /\ Re # 0
    /\ f > 0
    /\ IF Re > 0 THEN LogArgNum(Re, rr, f) > 0 ELSE LogArgNum(Re, rr, f) < 0

\* cb = lambda f: 1/np.sqrt(f) + 2.0*np.log10(rr/3.7 + 2.51/(Re*np.sqrt(f)))
\* in units of 1/LScale, where it is finite.
cb(Re, rr, f) ==
    10 * InvSqrt(f)
      + 2 * (Log10(Abs(LogArgNum(Re, rr, f))) - 2 * LScale - Log37 - Log10(Abs(Re)))

\* fsolve's initial guess 0.02
X0 == 20000

\* The interval of friction factors in which the root is located.
FLo == 1000
FHi == 1000000

RECURSIVE RootIter(_, _, _, _)
RootIter(Re, rr, lo, hi) ==
    IF hi - lo <= 1 THEN hi
    ELSE LET mid == lo + (hi - lo) \div 2
         IN IF cb(Re, rr, mid) > 0 THEN RootIter(Re, rr, mid, hi)
            ELSE RootIter(Re, rr, lo, mid)

\* scipy.optimize.fsolve(cb, 0.02) (MINPACK hybrd), by its outcome.  cb decreases in f, so it
\* has at most one root.  Where cb is finite at the initial guess and changes
\* sign in [FLo, FHi], the iteration converges to that root, located here to
\* the model's resolution.  Where cb is not finite at the initial guess
\* (nan or inf) the iteration makes no progress: fsolve warns and returns the
\* initial guess, and ier says it did not converge.
hybrd(Re, rr) ==
    IF /\ CbFinite(Re, rr, X0)
       /\ CbFinite(Re, rr, FLo) /\ cb(Re, rr, FLo) > 0
       /\ CbFinite(Re, rr, FHi) /\ cb(Re, rr, FHi) <= 0
    THEN [x |-> RootIter(Re, rr, FLo, FHi), converged |-> TRUE]
    ELSE [x |-> X0, converged |-> FALSE]


\* The arguments with which the model solves the Colebrook equation.
SolveArgs ==
    (ReInputs \X RrInputs)
      \cup (InterpRe \X {rr \in RrInputs : ValidRr(rr)})
      \cup (Range(ReValsCB) \X Range(rrVals))

\* fsolve is a function of its arguments: its outcomes, computed once
\* (@@ makes the table an explicit function).
fsolveTable == [a \in SolveArgs |-> hybrd(a[1], a[2])] @@ <<>>

fsolve(Re, rr) == fsolveTable[<<Re, rr>>]

\* ff(Re, rr, CBEQN): the call and what it yields.  The turbulent branch
\* returns result[0] whatever fsolve reports; the laminar branch divides.
ff(Re, rr, CBEQN) ==
    IF CBEQN
    THEN LET result == fsolve(Re, rr)
         IN [Re |-> Re, rr |-> rr, CBEQN |-> CBEQN, kind |-> "value",
             val |-> result.x, solves |-> 1, converged |-> result.converged]
    ELSE IF Re = 0
         THEN [Re |-> Re, rr |-> rr, CBEQN |-> CBEQN, kind |-> "ZeroDivisionError",
               val |-> 0, solves |-> 0, converged |-> TRUE]
         ELSE [Re |-> Re, rr |-> rr, CBEQN |-> CBEQN, kind |-> "value",
               val |-> (64 * FScale) \div Re, solves |-> 0, converged |-> TRUE]

(***************************************************************************)
(* HW5SP25a.py: plotMoody, steps 1 to 3 (the calls of ff).  Each array     *)
(* holds, per point, the call made and its result.                         *)
(***************************************************************************)
\* Mutant: every turbulent curve computed with the first roughness
plotMoody_one_roughness ==
    [ffLam |-> [i \in 1..Len(ReValsL) |-> ff(ReValsL[i], 0, FALSE)],
     ffTrans |-> [i \in 1..Len(ReValsTrans) |-> ff(ReValsTrans[i], 0, FALSE)],
     ffCB |-> [j \in 1..Len(rrVals) |->
                 [i \in 1..Len(ReValsCB) |-> ff(ReValsCB[i], rrVals[1], TRUE)]],
     draws |-> 0]

plotMoody ==
    [ffLam |-> [i \in 1..Len(ReValsL) |-> ff(ReValsL[i], 0, FALSE)],
     ffTrans |-> [i \in 1..Len(ReValsTrans) |-> ff(ReValsTrans[i], 0, FALSE)],
     ffCB |-> [j \in 1..Len(rrVals) |->
                 [i \in 1..Len(ReValsCB) |-> ff(ReValsCB[i], rrVals[j], TRUE)]],
     draws |-> 0]

(***************************************************************************)
(* The random module (HW5SP25b.py imports it as rnd): one process-wide     *)
(* generator.  Its state is one of RngMod values; a normal variate         *)
(* consumes the state and yields a standard normal z in units of 1/ZScale. *)
(***************************************************************************)
RngMod == 8
NSeeds == 2
MaxDraws == 2

RngStates == 0..(RngMod - 1)
Seeds == 0..(NSeeds - 1)

\* rnd.seed(a)
SeedState(a) == a % RngMod

RngNext(g) == (5 * g + 3) % RngMod

\* The standard normal variate drawn in state g: between -6.0 and 6.0
RngZ(g) == (((g * 37) % 25) - 12) * 5

RECURSIVE RngAfter(_, _)
RngAfter(g, n) == IF n = 0 THEN g ELSE RngAfter(RngNext(g), n - 1)

\* rnd.normalvariate(mu, sigma) in generator state g: mu + z * sigma
normalvariate(g, mu, sigma) == mu + (RngZ(g) * sigma) \div ZScale

(***************************************************************************)
(* HW5SP25b.py: calculate_friction_factor.                                 *)
(***************************************************************************)
\* Mutant: Re = 4000 is not taken as turbulent
regime_strict(Re) ==
    IF Re > 4000 THEN "turbulent"
    ELSE IF Re <= 2000 THEN "laminar"
    ELSE "transition"

\* Mutant: Re = 2000 is not taken as laminar
regime_lower(Re) ==
    IF Re >= 4000 THEN "turbulent"
    ELSE IF Re < 2000 THEN "laminar"
    ELSE "transition"

\* The order of the tests of lines 31 and 33
regime(Re) ==
    IF Re >= 4000 THEN "turbulent"
    ELSE IF Re <= 2000 THEN "laminar"
    ELSE "transition"

\* Mutant: the Fanning factor 16 / Re
f_lam_fanning(Re) == (16 * FScale) \div Re

\* f_lam = 64 / Re
f_lam(Re) == (64 * FScale) \div Re

\* Mutant: the weight (Re - 2000) / 2000 taken by integer division
mu_f_floordiv(Re, fl, fcb) == fl + (fcb - fl) * ((Re - 2000) \div 2000)

\* Mutant: the mean of the previous transition call is kept and used again
mu_f_kept(Re, fl, fcb) ==
    IF last.op = "calc" /\ last.regime = "transition" THEN last.mu
    ELSE fl + ((fcb - fl) * (Re - 2000)) \div 2000

\* mu_f = f_lam + (f_CB - f_lam) * ((Re - 2000) / 2000)
mu_f(Re, fl, fcb) == fl + ((fcb - fl) * (Re - 2000)) \div 2000

\* sigma_f = 0.2 * mu_f
sigma_f(mu) == (2 * mu) \div 10

\* calculate_friction_factor(Re, rr) with the generator in state g: what it
\* returns or raises, the generator's state afterwards, and the number of
\* Colebrook solves and of normal variates it took.
calculate_friction_factor(Re, rr, g) ==
    LET reg == regime(Re)
        none == [f_lam |-> 0, f_CB |-> 0, mu |-> 0, sigma |-> 0]
    IN CASE reg = "turbulent" ->
              LET f == ff(Re, rr, TRUE)
              IN [Re |-> Re, rr |-> rr, regime |-> reg, kind |-> f.kind, val |-> f.val,
                  solves |-> 1, draws |-> 0, converged |-> f.converged, rng |-> g] @@ none
         [] reg = "laminar" /\ Re = 0 ->
              [Re |-> Re, rr |-> rr, regime |-> reg, kind |-> "ZeroDivisionError", val |-> 0,
               solves |-> 0, draws |-> 0, converged |-> TRUE, rng |-> g] @@ none
         [] reg = "laminar" /\ Re # 0 ->
              [Re |-> Re, rr |-> rr, regime |-> reg, kind |-> "value", val |-> f_lam(Re),
               solves |-> 0, draws |-> 0, converged |-> TRUE, rng |-> g] @@ none
         [] reg = "transition" ->
              LET f == ff(Re, rr, TRUE)
                  fl == f_lam(Re)
                  mu == mu_f(Re, fl, f.val)
                  sigma == sigma_f(mu)
              IN [Re |-> Re, rr |-> rr, regime |-> reg, kind |-> "value",
                  val |-> normalvariate(g, mu, sigma),
                  solves |-> 1, draws |-> 1, converged |-> f.converged, rng |-> RngNext(g),
                  f_lam |-> fl, f_CB |-> f.val, mu |-> mu, sigma |-> sigma]

(***************************************************************************)
(* State.                                                                  *)
(*   rng    the state of the process-wide generator                        *)
(*   epoch  the seed last given to rnd.seed (-1: seeded by the system at   *)
(*          import) and the number of normal variates drawn since          *)
(*   last   the most recent operation: its arguments and its outcome       *)
(*   ref    an earlier transition call with valid arguments, kept for      *)
(*          comparison: the seed in force, the number of variates drawn    *)
(*          before it, its arguments and its result                        *)
(***************************************************************************)
NoRef == [seed |-> -1]

Init ==
    /\ rng \in RngStates
    /\ epoch = [seed |-> -1, draws |-> 0]
    /\ last = [op |-> "init"]
    /\ ref = NoRef

\* rnd.seed(a), called by whoever wants a reproducible run
Seed(a) ==
    /\ rng' = SeedState(a)
    /\ epoch' = [seed |-> a, draws |-> 0]
    /\ last' = [op |-> "seed", seed |-> a]
    /\ UNCHANGED ref

\* A call ff(Re, rr, CBEQN) with the regime forced
CallFF(Re, rr, CBEQN) ==
    /\ last' = [op |-> "ff"] @@ ff(Re, rr, CBEQN)
    /\ UNCHANGED <<rng, epoch, ref>>

\* A call calculate_friction_factor(Re, rr).  replay compares the result with
\* the kept call when seed, position in the draw sequence and arguments are
\* the same; repeat compares it with the call just before when that was a
\* transition call with the same arguments.
Calculate(Re, rr) ==
    LET r == calculate_friction_factor(Re, rr, rng)
        seeded == epoch.seed # -1
        key == [seed |-> epoch.seed, k |-> epoch.draws, Re |-> Re, rr |-> rr]
        replay == IF /\ r.draws = 1 /\ seeded /\ ref # NoRef
                     /\ [seed |-> ref.seed, k |-> ref.k, Re |-> ref.Re, rr |-> ref.rr] = key
                  THEN (IF ref.val = r.val THEN "same" ELSE "diff")
                  ELSE "na"
        repeat == IF /\ r.draws = 1 /\ last.op = "calc"
                     /\ last.regime = "transition" /\ last.Re = Re /\ last.rr = rr
                  THEN (IF last.val = r.val THEN "same" ELSE "diff")
                  ELSE "na"
    IN /\ r.draws = 0 \/ ~seeded \/ epoch.draws < MaxDraws
       /\ rng' = r.rng
       /\ epoch' = IF seeded THEN [epoch EXCEPT !.draws = @ + r.draws] ELSE epoch
       /\ last' = [op |-> "calc", replay |-> replay, repeat |-> repeat] @@ r
       /\ \/ ref' = ref
          \/ /\ r.draws = 1 /\ seeded /\ ValidInput(Re, rr)
             /\ ref' = key @@ [val |-> r.val]

\* HW5SP25a.py run as a script: main calls plotMoody
PlotMoody ==
    /\ last.op = "init"
    /\ last' = [op |-> "plotMoody"] @@ plotMoody
    /\ UNCHANGED <<rng, epoch, ref>>

Next ==
    \/ \E a \in Seeds : Seed(a)
    \/ \E Re \in ReInputs, rr \in RrInputs, CBEQN \in BOOLEAN : CallFF(Re, rr, CBEQN)
    \/ \E Re \in ReInputs, rr \in RrInputs : Calculate(Re, rr)
    \/ PlotMoody

Spec == Init /\ [][Next]_vars

(***************************************************************************)
(* The interpolation of lines 37 to 42 applied on its own over the closed  *)
(* interval [2000, 4000].                                                  *)
(***************************************************************************)
EvalMu(Re, rr) ==
    LET f == ff(Re, rr, TRUE)
        fl == f_lam(Re)
        mu == mu_f(Re, fl, f.val)
    IN /\ last' = [op |-> "mu", Re |-> Re, rr |-> rr, f_lam |-> fl, f_CB |-> f.val,
                   converged |-> f.converged, mu |-> mu, sigma |-> sigma_f(mu)]
       /\ UNCHANGED <<rng, epoch, ref>>

NextInterp == \E Re \in InterpRe, rr \in {x \in RrInputs : ValidRr(x)} : EvalMu(Re, rr)

SpecInterp == Init /\ [][NextInterp]_vars

(***************************************************************************)
(* Properties.                                                             *)
(***************************************************************************)
IsCall == last.op \in {"calc", "ff"}

\* v is the quotient 64 / Re of a positive Re, rounded as the model rounds
Is64OverRe(Re, v) == v * Re <= 64 * FScale /\ 64 * FScale < (v + 1) * Re

\* f is where the Colebrook residual of (Re, rr) changes sign
IsColebrookRoot(Re, rr, f) ==
    /\ CbFinite(Re, rr, f - 1) /\ cb(Re, rr, f - 1) > 0
    /\ CbFinite(Re, rr, f) /\ cb(Re, rr, f) <= 0

\* C1: for 0 < Re <= 2000, calculate_friction_factor(Re, rr) returns 64/Re
\* whatever rr is, and so does ff(Re, rr, CBEQN=False).
C1_LaminarIs64OverRe ==
    /\ (last.op = "calc" /\ 0 < last.Re /\ last.Re <= 2000)
          => (last.kind = "value" /\ Is64OverRe(last.Re, last.val))
    /\ (last.op = "ff" /\ ~last.CBEQN /\ 0 < last.Re /\ last.Re <= 2000)
          => (last.kind = "value" /\ Is64OverRe(last.Re, last.val))

\* Re = 1000 with the roughest valid pipe gives 0.064
C1_Witness ==
    last.op = "calc" /\ last.Re = 1000 /\ last.rr = 50000 /\ last.val = 64000

\* C2: for Re > 0, calculate_friction_factor takes exactly one of three paths:
\* laminar iff Re <= 2000 (no solve, no draw), turbulent iff Re >= 4000 (one
\* solve, no draw), transition iff 2000 < Re < 4000 (one solve, one draw).
C2_RegimeDispatch ==
    (last.op = "calc" /\ last.Re > 0) =>
        /\ (last.Re <= 2000) <=> (last.regime = "laminar")
        /\ (last.Re >= 4000) <=> (last.regime = "turbulent")
        /\ (2000 < last.Re /\ last.Re < 4000) <=> (last.regime = "transition")
        /\ last.regime = "laminar" => (last.solves = 0 /\ last.draws = 0)
        /\ last.regime = "turbulent" => (last.solves = 1 /\ last.draws = 0)
        /\ last.regime = "transition" => (last.solves = 1 /\ last.draws = 1)

\* The upper boundary Re = 4000 has been resolved as turbulent
C2_Witness ==
    last.op = "calc" /\ last.Re = 4000 /\ last.regime = "turbulent" /\ last.solves = 1

\* C3: for every valid input the resolver returns a strictly positive
\* friction factor, in every regime.
C3_PositiveFriction ==
    (IsCall /\ ValidInput(last.Re, last.rr)) => (last.kind = "value" /\ last.val > 0)

\* C4: for an invalid input (Re <= 0 or rr outside [0, 0.05]) the resolver
\* returns no numeric friction factor.
C4_InvalidInputRejected ==
    (IsCall /\ ~ValidInput(last.Re, last.rr)) => last.kind # "value"

\* C5: when the Colebrook solve has not converged the resolver returns no
\* numeric friction factor.
C5_NonConvergenceSurfaced ==
    (IsCall /\ last.solves = 1 /\ ~last.converged) => last.kind # "value"

\* C6: the transition mean is f_lam + (f_CB - f_lam) * (Re - 2000) / 2000 with
\* f_lam = 64/Re and f_CB the Colebrook root, the spread is 0.2 * mu, mu lies
\* between f_lam and f_CB, and it is f_lam at Re = 2000 and f_CB at Re = 4000.
C6_TransitionMean ==
    (last.op = "mu") =>
        /\ Is64OverRe(last.Re, last.f_lam)
        /\ last.converged /\ IsColebrookRoot(last.Re, last.rr, last.f_CB)
        /\ 2000 * (last.mu - last.f_lam) <= (last.f_CB - last.f_lam) * (last.Re - 2000)
        /\ (last.f_CB - last.f_lam) * (last.Re - 2000) < 2000 * (last.mu - last.f_lam + 1)
        /\ 10 * last.sigma <= 2 * last.mu /\ 2 * last.mu < 10 * (last.sigma + 1)
        /\ \/ (last.f_lam <= last.mu /\ last.mu <= last.f_CB)
           \/ (last.f_CB <= last.mu /\ last.mu <= last.f_lam)
        /\ last.Re = 2000 => last.mu = last.f_lam
        /\ last.Re = 4000 => last.mu = last.f_CB

\* The interpolation evaluated at the upper boundary, where it reaches a
\* Colebrook value different from the laminar one
C6_Witness ==
    last.op = "mu" /\ last.Re = 4000 /\ last.mu = last.f_CB /\ last.f_CB # last.f_lam

\* C7: a transition call made after rnd.seed(a), at the same position in the
\* sequence of draws and with the same (Re, rr) as an earlier one made under
\* the same seed, returns what the earlier one returned.
C7_SeededReplay == (last.op = "calc") => last.replay # "diff"

\* A transition call that reproduces the kept call of an earlier run with the
\* same seed, and differs from the identical call made just before it with no
\* re-seeding in between
C7_Witness == last.op = "calc" /\ last.replay = "same" /\ last.repeat = "diff"

Increasing(seq) == \A i \in 1..(Len(seq) - 1) : seq[i] < seq[i + 1]

\* Re lies in [lo, hi], to the resolution of the logarithm (1e-4 in log10)
InLogRange(Re, lo, hi) == Re > 0 /\ Log10(lo) <= Log10(Re) /\ Log10(Re) <= Log10(hi)

\* C9: plotMoody calls ff once per Re of the laminar grid [600, 2000] and once
\* per Re of the transition grid [2000, 4000], each with rr = 0 and the
\* laminar formula forced (the value is 64/Re, also above Re = 2000), and once
\* per (roughness, Re) pair of the roughness sequence and the turbulent grid
\* [4000, 1e8] with the Colebrook equation forced: one curve per roughness,
\* one point per turbulent Re; no normal variate is drawn; the roughness
\* sequence increases strictly from 0 to 0.05.
C9_MoodyGrid ==
    (last.op = "plotMoody") =>
        /\ DOMAIN last.ffLam = DOMAIN ReValsL
        /\ \A i \in DOMAIN last.ffLam :
              LET c == last.ffLam[i]
              IN /\ c.Re = ReValsL[i] /\ c.rr = 0 /\ ~c.CBEQN
                 /\ InLogRange(c.Re, 600, 2000)
                 /\ c.kind = "value" /\ Is64OverRe(c.Re, c.val) /\ c.solves = 0
        /\ DOMAIN last.ffTrans = DOMAIN ReValsTrans
        /\ \A i \in DOMAIN last.ffTrans :
              LET c == last.ffTrans[i]
              IN /\ c.Re = ReValsTrans[i] /\ c.rr = 0 /\ ~c.CBEQN
                 /\ InLogRange(c.Re, 2000, 4000)
                 /\ c.kind = "value" /\ Is64OverRe(c.Re, c.val) /\ c.solves = 0
        /\ DOMAIN last.ffCB = DOMAIN rrVals
        /\ \A j \in DOMAIN last.ffCB :
              /\ DOMAIN last.ffCB[j] = DOMAIN ReValsCB
              /\ \A i \in DOMAIN last.ffCB[j] :
                    LET c == last.ffCB[j][i]
                    IN /\ c.Re = ReValsCB[i] /\ c.rr = rrVals[j] /\ c.CBEQN
                       /\ InLogRange(c.Re, 4000, 100000000)
                       /\ c.solves = 1
        /\ last.draws = 0
        /\ Increasing(ReValsL) /\ Increasing(ReValsTrans) /\ Increasing(ReValsCB)
        /\ Increasing(rrVals)
        /\ rrVals[1] = 0 /\ 20 * rrVals[Len(rrVals)] = RrScale
        /\ \A j \in DOMAIN rrVals : ValidRr(rrVals[j])

\* plotMoody has run, and its transition curve holds a point above Re = 2000
\* computed with the laminar formula
C9_Witness ==
    /\ last.op = "plotMoody"
    /\ \E i \in DOMAIN last.ffTrans :
          last.ffTrans[i].Re > 2000 /\ Is64OverRe(last.ffTrans[i].Re, last.ffTrans[i].val)
    /\ Len(last.ffCB) > 1 /\ Len(last.ffCB[1]) > 1

\* C10: a call changes nothing but the generator.  A forced call ff(...), a
\* run of plotMoody and a call of calculate_friction_factor with Re <= 2000 or
\* Re >= 4000 leave the generator as it was, and the value such a call returns
\* is fixed by its arguments alone; a call with 2000 < Re < 4000 advances the
\* generator by exactly one variate; so after rnd.seed(a) the generator stands
\* at the seed advanced once per transition call, whatever other calls were
\* made in between.
C10_Step ==
    /\ last'.op \in {"ff", "plotMoody"} => rng' = rng
    /\ (last'.op = "calc" /\ (last'.Re <= 2000 \/ last'.Re >= 4000)) =>
          /\ rng' = rng /\ last'.draws = 0
          /\ (0 < last'.Re /\ last'.Re <= 2000) => Is64OverRe(last'.Re, last'.val)
          /\ (last'.Re >= 4000 /\ last'.converged) =>
                IsColebrookRoot(last'.Re, last'.rr, last'.val)
          /\ (last'.Re >= 4000 /\ ~last'.converged) => last'.val = X0
    /\ (last'.op = "calc" /\ 2000 < last'.Re /\ last'.Re < 4000) =>
          /\ rng' = RngNext(rng) /\ last'.draws = 1
          /\ last'.val = last'.mu + (RngZ(rng) * last'.sigma) \div ZScale
    /\ epoch'.seed # -1 => rng' = RngAfter(SeedState(epoch'.seed), epoch'.draws)

C10_PrngIsTheOnlyEffect == [][C10_Step]_vars

\* A laminar call made after a seeded transition call has drawn a variate
C10_Witness ==
    last.op = "calc" /\ last.regime = "laminar" /\ epoch.seed # -1 /\ epoch.draws > 0
====
